---- MODULE Spec2Model ----
(***************************************************************************)
(* Product catalog REST service: the HTTP route layer of                   *)
(* service/routes.py over the Product entity, the query layer and the data *)
(* store of service/models.py.                                             *)
(*                                                                         *)
(* The store is a table of Product rows keyed by id.  Every route handler  *)
(* is an operator from (store, request) to (response, store'); one action  *)
(* per handler applies it.  `before` and `last` record the store as it was *)
(* when the last request arrived and the request itself, so that what a    *)
(* request did can be stated as a predicate of one state.  Requests are    *)
(* served one at a time (section 5 of the specification: no coordination   *)
(* between requests beyond the store's own atomicity).                     *)
(***************************************************************************)
EXTENDS Integers, FiniteSets, Sequences, TLC

VARIABLES
    store,   \* the Product table: id -> row
    before,  \* the table as it was when the last request arrived
    last,    \* the last request
    resp,    \* the answer to it
    done     \* the kinds of request that have changed the table so far

vars == <<store, before, last, resp, done>>

(***************************************************************************)
(* Bounds of the model.                                                    *)
(***************************************************************************)
\* Ids the store may assign are 1..MaxId.
MaxId == 3

(***************************************************************************)
(* service.common.status                                                   *)
(***************************************************************************)
HTTP_200_OK == 200
HTTP_201_CREATED == 201
HTTP_204_NO_CONTENT == 204
HTTP_400_BAD_REQUEST == 400
HTTP_404_NOT_FOUND == 404
HTTP_415_UNSUPPORTED_MEDIA_TYPE == 415
HTTP_500_INTERNAL_SERVER_ERROR == 500

(***************************************************************************)
(* JSON values and request bodies.  A JSON value carries its type, so that *)
(* "name is not a string" and "available is not a boolean" are inputs.     *)
(***************************************************************************)
JStr(s) == [t |-> "str", s |-> s, b |-> FALSE, n |-> 0]
JBool(b) == [t |-> "bool", s |-> "", b |-> b, n |-> 0]
JNum(n) == [t |-> "num", s |-> "", b |-> FALSE, n |-> n]

\* A JSON object is a function from its keys to JSON values.
Full(n, d, p, a, c) ==
    [name |-> n, description |-> d, price |-> p, available |-> a, category |-> c]
Without(obj, k) == [x \in (DOMAIN obj) \ {k} |-> obj[x]]
With(obj, k, v) == [x \in (DOMAIN obj) \cup {k} |-> IF x = k THEN v ELSE obj[x]]
EmptyObject == [x \in {} |-> JNum(0)]

\* The payloads of tests/factories.ProductFactory().serialize(), cut to a few.
Hammer == Full(JStr("Hammer"), JStr("steel"), JStr("9.99"), JBool(TRUE), JStr("TOOLS"))
LowerHammer == Full(JStr("hammer"), JStr("wood"), JStr("12.5"), JBool(FALSE), JStr("FOOD"))
Apple == Full(JStr("Apple"), JStr("steel"), JStr("9.99"), JBool(FALSE), JStr("FOOD"))

ValidPayloads ==
    {Hammer, LowerHammer, Apple} \cup
    {With(LowerHammer, "id", JNum(i)) : i \in 1..2}

InvalidPayloads ==
    { EmptyObject,
      Without(Hammer, "name"),
      With(LowerHammer, "name", JNum(42)),
      Without(LowerHammer, "price"),
      With(LowerHammer, "available", JStr("yes")),
      With(LowerHammer, "category", JStr("BOGUS")),
      With(LowerHammer, "category", JStr("food")) }

Payloads == ValidPayloads \cup InvalidPayloads

(***************************************************************************)
(* service.models: Category, Product, the query layer and the store.       *)
(***************************************************************************)
\* The closed enumeration; a member is its position, its name the string.
CategoryNames == <<"UNKNOWN", "CLOTHS", "FOOD", "HOUSEWARES", "AUTOMOTIVE", "TOOLS">>
Category == 1..Len(CategoryNames)
IsCategoryName(s) == \E c \in Category : CategoryNames[c] = s
\* Category[name], defined when IsCategoryName(name); a KeyError otherwise.
CategoryByName(s) == CHOOSE c \in Category : CategoryNames[c] = s
CategoryName(c) == CategoryNames[c]

\* Exact decimals: coef / 10^exp.  The literals the payloads use.
PriceLiterals == {"9.99", "12.5"}
ParsePrice(s) ==
    CASE s = "9.99" -> [coef |-> 999, exp |-> 2]
      [] s = "12.5" -> [coef |-> 125, exp |-> 1]
FormatPrice(p) ==
    CASE p = [coef |-> 999, exp |-> 2] -> "9.99"
      [] p = [coef |-> 125, exp |-> 1] -> "12.5"

\* The id of an entity that was never persisted (None).
NoId == 0

\* Product(): no attribute set yet.
NewProduct == [x \in {"id"} |-> NoId]
Assign(e, k, v) == [x \in (DOMAIN e) \cup {k} |-> IF x = k THEN v ELSE e[x]]

MutableFields == {"name", "description", "price", "available", "category"}

\* deserialize(data): assigns the fields in turn; the first invalid or
\* missing one raises DataValidationError and leaves the entity as it is then.
Deserialize(e, data) ==
    LET s1 == IF "name" \in DOMAIN data /\ data["name"].t = "str"
              THEN [ok |-> TRUE, e |-> Assign(e, "name", data["name"].s)]
              ELSE [ok |-> FALSE, e |-> e]
        s2 == IF ~s1.ok THEN s1
              ELSE [ok |-> TRUE, e |-> Assign(s1.e, "description", data["description"].s)]
        s3 == IF ~s2.ok THEN s2
              ELSE IF "price" \in DOMAIN data /\ data["price"].t = "str"
                      /\ data["price"].s \in PriceLiterals
              THEN [ok |-> TRUE, e |-> Assign(s2.e, "price", ParsePrice(data["price"].s))]
              ELSE [ok |-> FALSE, e |-> s2.e]
        s4 == IF ~s3.ok THEN s3
              ELSE IF data["available"].t = "bool"
              THEN [ok |-> TRUE, e |-> Assign(s3.e, "available", data["available"].b)]
              ELSE [ok |-> FALSE, e |-> s3.e]
        s5 == IF ~s4.ok THEN s4
              ELSE IF data["category"].t = "str" /\ IsCategoryName(data["category"].s)
              THEN [ok |-> TRUE,
                    e |-> Assign(s4.e, "category", CategoryByName(data["category"].s))]
              ELSE [ok |-> FALSE, e |-> s4.e]
    IN s5

\* serialize(): price as a string, category as its symbolic name.
Serialize(p) ==
    [id |-> p.id, name |-> p.name, description |-> p.description,
     price |-> FormatPrice(p.price), available |-> p.available,
     category |-> CategoryName(p.category)]

EmptyStore == [i \in {} |-> NewProduct]

\* The ids the store may give a new row: any id no stored row has.
FreshIds(st) == (1..MaxId) \ DOMAIN st

\* create(): the store assigns the id and inserts the row.
Create(st, e, newId) ==
    [i \in (DOMAIN st) \cup {newId} |-> IF i = newId THEN Assign(e, "id", newId) ELSE st[i]]

\* update(): a DataError unless the entity has an id and the row exists;
\* otherwise it replaces the row of the entity's id.
UpdateOk(st, e) == e.id # NoId /\ e.id \in DOMAIN st
Update(st, e) == [i \in DOMAIN st |-> IF i = e.id THEN e ELSE st[i]]

\* delete(): removes the row of the entity's id.
Delete(st, e) == [i \in (DOMAIN st) \ {e.id} |-> st[i]]

\* find(id): the row, when there is one.
Found(st, id) == id \in DOMAIN st
Find(st, id) == st[id]

All(st) == {st[i] : i \in DOMAIN st}
FindByName(st, name) == {p \in All(st) : p.name = name}
FindByCategory(st, category) == {p \in All(st) : p.category = category}
FindByAvailability(st, available) == {p \in All(st) : p.available = available}

(***************************************************************************)
(* Requests and responses.                                                 *)
(***************************************************************************)
\* request.args.get(k): None when the parameter is missing.
Missing == [present |-> FALSE, v |-> ""]
Arg(v) == [present |-> TRUE, v |-> v]
\* Python truth of an Optional[str]: neither None nor "".
Truthy(a) == a.present /\ a.v # ""

\* str.lower() on the values the requests carry.
Lower(s) ==
    CASE s = "TRUE" -> "true"
      [] s = "True" -> "true"
      [] s = "False" -> "false"
      [] OTHER -> s

NameArgs == {Missing, Arg(""), Arg("Hammer"), Arg("hammer")}
CategoryArgs == {Missing, Arg(""), Arg("TOOLS"), Arg("FOOD"), Arg("BOGUS")}
AvailableArgs == {Missing, Arg(""), Arg("true"), Arg("True"), Arg("false"), Arg("maybe")}

\* Ids a path may carry (<int:product_id>); 0 is never a stored id.
PathIds == 0..MaxId

NoLocation == <<>>
Location(id) == <<"products", id>>

Request(op, id, json, legacy, data, name, category, available) ==
    [op |-> op, id |-> id, json |-> json, legacy |-> legacy, data |-> data,
     name |-> name, category |-> category, available |-> available]
NoRequest == Request("NONE", NoId, TRUE, FALSE, EmptyObject, Missing, Missing, Missing)

Response(status, items, location, st) ==
    [status |-> status, items |-> items, location |-> location, store |-> st]
\* abort(status), or an error handler's answer: no body of products.
Abort(status, st) == Response(status, {}, NoLocation, st)

SerializeAll(ps) == {Serialize(p) : p \in ps}

(***************************************************************************)
(* service.routes: the handlers.                                           *)
(***************************************************************************)
index(st) == Abort(HTTP_200_OK, st)

health(st) == Abort(HTTP_200_OK, st)

\* create_products without the content-type test of lines 34-35.
create_products_NoMediaTypeCheck(st, req, newId) ==
    LET d == Deserialize(NewProduct, req.data) IN
    IF ~d.ok THEN Abort(HTTP_400_BAD_REQUEST, st)
    ELSE LET st2 == Create(st, d.e, newId)
             product == Assign(d.e, "id", newId)
         IN Response(HTTP_201_CREATED, {Serialize(product)}, Location(product.id), st2)

\* create_products without the product.create() of line 40.
create_products_NoCreate(st, req, newId) ==
    IF ~req.json THEN Abort(HTTP_415_UNSUPPORTED_MEDIA_TYPE, st)
    ELSE LET d == Deserialize(NewProduct, req.data) IN
         IF ~d.ok THEN Abort(HTTP_400_BAD_REQUEST, st)
         ELSE Response(HTTP_201_CREATED, {Serialize(d.e)}, Location(d.e.id), st)

\* POST /products.  newId is the id the store assigns if the row is inserted.
create_products(st, req, newId) ==
    IF ~req.json THEN Abort(HTTP_415_UNSUPPORTED_MEDIA_TYPE, st)
    ELSE LET d == Deserialize(NewProduct, req.data) IN
         IF ~d.ok THEN Abort(HTTP_400_BAD_REQUEST, st)
         ELSE LET st2 == Create(st, d.e, newId)
                  product == Assign(d.e, "id", newId)
              IN Response(HTTP_201_CREATED, {Serialize(product)},
                          Location(product.id), st2)

\* GET /products?name=&category=&available=
list_products(st, req) ==
    IF Truthy(req.name)
    THEN Response(HTTP_200_OK, SerializeAll(FindByName(st, req.name.v)), NoLocation, st)
    ELSE IF Truthy(req.category)
    THEN IF IsCategoryName(req.category.v)
         THEN Response(HTTP_200_OK,
                       SerializeAll(FindByCategory(st, CategoryByName(req.category.v))),
                       NoLocation, st)
         \* Category[category] raises KeyError, which no handler turns into a 4xx
         ELSE Abort(HTTP_500_INTERNAL_SERVER_ERROR, st)
    ELSE IF Truthy(req.available)
    THEN Response(HTTP_200_OK,
                  SerializeAll(FindByAvailability(st, Lower(req.available.v) = "true")),
                  NoLocation, st)
    ELSE Response(HTTP_200_OK, SerializeAll(All(st)), NoLocation, st)

\* GET /products/<id>
get_products(st, req) ==
    IF ~Found(st, req.id) THEN Abort(HTTP_404_NOT_FOUND, st)
    ELSE Response(HTTP_200_OK, {Serialize(Find(st, req.id))}, NoLocation, st)

\* update_products without the not-found test of lines 86-87: the payload
\* is stored under the id of the path.
update_products_Upsert(st, req) ==
    IF ~req.json
    THEN Abort(IF req.legacy THEN HTTP_400_BAD_REQUEST
               ELSE HTTP_415_UNSUPPORTED_MEDIA_TYPE, st)
    ELSE LET d == Deserialize(IF Found(st, req.id) THEN Find(st, req.id)
                              ELSE Assign(NewProduct, "id", req.id), req.data) IN
         IF ~d.ok THEN Abort(HTTP_400_BAD_REQUEST, st)
         ELSE Response(HTTP_200_OK, {Serialize(d.e)}, NoLocation,
                       IF Found(st, req.id) THEN Update(st, d.e)
                       ELSE Create(st, d.e, req.id))

\* update_products without the product.update() of line 91.
update_products_NoUpdate(st, req) ==
    IF ~Found(st, req.id) THEN Abort(HTTP_404_NOT_FOUND, st)
    ELSE IF ~req.json
    THEN Abort(IF req.legacy THEN HTTP_400_BAD_REQUEST
               ELSE HTTP_415_UNSUPPORTED_MEDIA_TYPE, st)
    ELSE LET d == Deserialize(Find(st, req.id), req.data) IN
         IF ~d.ok THEN Abort(HTTP_400_BAD_REQUEST, st)
         ELSE Response(HTTP_200_OK, {Serialize(d.e)}, NoLocation, st)

\* update_products saving the entity although deserialize raised: the fields
\* assigned before the invalid one reach the table.
update_products_SavePartial(st, req) ==
    IF ~Found(st, req.id) THEN Abort(HTTP_404_NOT_FOUND, st)
    ELSE IF ~req.json
    THEN Abort(IF req.legacy THEN HTTP_400_BAD_REQUEST
               ELSE HTTP_415_UNSUPPORTED_MEDIA_TYPE, st)
    ELSE LET d == Deserialize(Find(st, req.id), req.data) IN
         IF ~d.ok THEN Abort(HTTP_400_BAD_REQUEST, Update(st, d.e))
         ELSE Response(HTTP_200_OK, {Serialize(d.e)}, NoLocation, Update(st, d.e))

\* PUT /products/<id>.  request.get_json() of a request that is not JSON
\* ends the request with 415, or (req.legacy: a Flask that returns None)
\* hands None to deserialize, which is a validation error.
update_products(st, req) ==
    IF ~Found(st, req.id) THEN Abort(HTTP_404_NOT_FOUND, st)
    ELSE IF ~req.json
    THEN Abort(IF req.legacy THEN HTTP_400_BAD_REQUEST
               ELSE HTTP_415_UNSUPPORTED_MEDIA_TYPE, st)
    ELSE LET d == Deserialize(Find(st, req.id), req.data) IN
         IF ~d.ok THEN Abort(HTTP_400_BAD_REQUEST, st)
         ELSE IF ~UpdateOk(st, d.e) THEN Abort(HTTP_500_INTERNAL_SERVER_ERROR, st)
         ELSE Response(HTTP_200_OK, {Serialize(d.e)}, NoLocation, Update(st, d.e))

\* delete_products without the product.delete() of line 104.
delete_products_NoDelete(st, req) ==
    IF ~Found(st, req.id) THEN Abort(HTTP_404_NOT_FOUND, st)
    ELSE Response(HTTP_204_NO_CONTENT, {}, NoLocation, st)

\* DELETE /products/<id>
delete_products(st, req) ==
    IF ~Found(st, req.id) THEN Abort(HTTP_404_NOT_FOUND, st)
    ELSE Response(HTTP_204_NO_CONTENT, {}, NoLocation, Delete(st, Find(st, req.id)))

(***************************************************************************)
(* The service: one action per route.                                      *)
(***************************************************************************)
Init ==
    /\ store = EmptyStore
    /\ before = EmptyStore
    /\ last = NoRequest
    /\ resp = Abort(HTTP_200_OK, EmptyStore)
    /\ done = {}

\* No request is being served: the service waits for the next one.
Idle == last = NoRequest

\* The request req arrives and is answered by r.
Answer(req, r) ==
    /\ Idle
    /\ before' = store
    /\ last' = req
    /\ resp' = r
    /\ store' = r.store
    /\ done' = IF r.store = store THEN done ELSE done \cup {req.op}

Simple(op, id) == Request(op, id, TRUE, FALSE, EmptyObject, Missing, Missing, Missing)

Index == Answer(Simple("INDEX", NoId), index(store))

Health == Answer(Simple("HEALTH", NoId), health(store))

CreateProducts ==
    \E json \in BOOLEAN, data \in Payloads :
      \E newId \in IF FreshIds(store) = {} THEN {NoId} ELSE FreshIds(store) :
        LET req == Request("POST", NoId, json, FALSE, data, Missing, Missing, Missing)
            r == create_products(store, req, newId)
        IN \* a full table takes no further row
           /\ r.status = HTTP_201_CREATED => newId \in FreshIds(store)
           /\ Answer(req, r)

ListProducts ==
    \E name \in NameArgs, category \in CategoryArgs, available \in AvailableArgs :
        LET req == Request("LIST", NoId, TRUE, FALSE, EmptyObject, name, category, available)
        IN Answer(req, list_products(store, req))

GetProducts ==
    \E id \in PathIds : Answer(Simple("GET", id), get_products(store, Simple("GET", id)))

UpdateProducts ==
    \E id \in PathIds, json \in BOOLEAN, legacy \in BOOLEAN, data \in Payloads :
        LET req == Request("PUT", id, json, legacy, data, Missing, Missing, Missing)
        IN /\ json => ~legacy
           /\ ~json => data = Hammer
           /\ Answer(req, update_products(store, req))

DeleteProducts ==
    \E id \in PathIds :
        Answer(Simple("DELETE", id), delete_products(store, Simple("DELETE", id)))

\* The answer has been sent; nothing of the request is kept but the table.
Sent ==
    /\ ~Idle
    /\ last' = NoRequest
    /\ resp' = Abort(HTTP_200_OK, store)
    /\ before' = store
    /\ UNCHANGED <<store, done>>

Next ==
    \/ Sent
    \/ Index
    \/ Health
    \/ CreateProducts
    \/ ListProducts
    \/ GetProducts
    \/ UpdateProducts
    \/ DeleteProducts

Spec == Init /\ [][Next]_vars

TypeOK ==
    /\ DOMAIN store \subseteq 1..MaxId
    /\ \A i \in DOMAIN store : store[i].id = i /\ DOMAIN store[i] = MutableFields \cup {"id"}
    /\ resp.store = store

(***************************************************************************)
(* Properties.                                                             *)
(***************************************************************************)
Count(st) == Cardinality(DOMAIN st)

\* Every row of `a` but the one of id is in `b`, unchanged.
OthersKept(a, b, id) == \A i \in (DOMAIN a) \ {id} : i \in DOMAIN b /\ b[i] = a[i]

\* The row p holds what the payload data submitted.
HoldsPayload(p, data) ==
    /\ p.name = data["name"].s
    /\ p.description = data["description"].s
    /\ p.price = ParsePrice(data["price"].s)
    /\ Serialize(p).price = data["price"].s
    /\ p.available = data["available"].b
    /\ IsCategoryName(data["category"].s)
    /\ p.category = CategoryByName(data["category"].s)
    /\ Serialize(p).category = data["category"].s

\* C1: GET, PUT and DELETE on /products/{id} with an id no stored product
\* has answer 404 and leave the table exactly as it was; PUT creates no row,
\* whatever its body.
C1_NotFoundLeavesStore ==
    (last.op \in {"GET", "PUT", "DELETE"} /\ ~Found(before, last.id))
        => (resp.status = HTTP_404_NOT_FOUND /\ store = before)

\* C1 witness: a PUT with a valid JSON product for an id that is not stored,
\* while other products are, was answered 404.
C1_Witness ==
    /\ last.op = "PUT" /\ last.json /\ last.data \in ValidPayloads
    /\ last.id \in 1..MaxId /\ ~Found(before, last.id)
    /\ Count(before) >= 1
    /\ resp.status = HTTP_404_NOT_FOUND

\* C2: after a DELETE answered 204 the id is no longer found (GET answers
\* 404), the table holds exactly one row less, and every other row is still
\* there unchanged.
C2_DeleteRemovesExactlyOne ==
    (last.op = "DELETE" /\ resp.status = HTTP_204_NO_CONTENT)
        => /\ Found(before, last.id)
           /\ ~Found(store, last.id)
           /\ get_products(store, Simple("GET", last.id)).status = HTTP_404_NOT_FOUND
           /\ Count(store) = Count(before) - 1
           /\ OthersKept(before, store, last.id)

\* C2 witness: a delete answered 204 after creates, updates and deletes have
\* all changed the table, with other rows left.
C2_Witness ==
    /\ last.op = "DELETE" /\ resp.status = HTTP_204_NO_CONTENT
    /\ {"POST", "PUT", "DELETE"} \subseteq done
    /\ Count(before) >= 2
    /\ Count(store) >= 1

\* C3: a POST answered 201 carries Location /products/{id} with an id no row
\* had before; that id now finds a row holding the payload's name,
\* description, price, available and category, and the table has grown by one.
C3_CreateStoresPayload ==
    (last.op = "POST" /\ resp.status = HTTP_201_CREATED)
        => \E id \in (DOMAIN store) \ (DOMAIN before) :
              /\ resp.location = Location(id)
              /\ Found(store, id)
              /\ Find(store, id).id = id
              /\ HoldsPayload(Find(store, id), last.data)
              /\ get_products(store, Simple("GET", id)).items = resp.items
              /\ Count(store) = Count(before) + 1

\* C3 witness: a product was created beside stored ones, under an id other
\* than the one its payload carried.
C3_Witness ==
    /\ last.op = "POST" /\ resp.status = HTTP_201_CREATED
    /\ Count(before) >= 1
    /\ "id" \in DOMAIN last.data
    /\ resp.location # Location(last.data["id"].n)

\* C4: a PUT answered 200 replaces the mutable fields of the row of the
\* path's id by the payload's, keeps its id (whatever id the payload
\* carries), and leaves the set of ids and every other row as they were.
C4_UpdateReplacesFields ==
    (last.op = "PUT" /\ resp.status = HTTP_200_OK)
        => /\ Found(before, last.id)
           /\ DOMAIN store = DOMAIN before
           /\ Find(store, last.id).id = last.id
           /\ HoldsPayload(Find(store, last.id), last.data)
           /\ OthersKept(before, store, last.id)

\* C4 witness: an update with a payload carrying another id changed a row
\* while another row was stored.
C4_Witness ==
    /\ last.op = "PUT" /\ resp.status = HTTP_200_OK
    /\ "id" \in DOMAIN last.data /\ last.data["id"].n # last.id
    /\ Find(store, last.id) # Find(before, last.id)
    /\ Count(before) >= 2

\* What the precedence name, category, available, else all selects, a
\* parameter counting as soon as it is supplied.
SuppliedFilter(st, req) ==
    IF req.name.present THEN FindByName(st, req.name.v)
    ELSE IF req.category.present THEN FindByCategory(st, CategoryByName(req.category.v))
    ELSE IF req.available.present
    THEN FindByAvailability(st, Lower(req.available.v) = "true")
    ELSE All(st)

\* C5: GET /products applies one filter by the precedence name, then
\* category, then available, else all, for every combination of supplied and
\* missing parameters (stated for requests whose category, if supplied, names
\* a member; the others are C7's).
C5_FilterPrecedence ==
    (last.op = "LIST"
     /\ (last.category.present => IsCategoryName(last.category.v)))
        => /\ resp.status = HTTP_200_OK
           /\ resp.items = SerializeAll(SuppliedFilter(before, last))

\* C6: the by-name lookup and GET /products?name=n return exactly the stored
\* products whose name is n (case-sensitively), for every n; likewise the
\* by-category and by-availability lookups.
C6_ExactFilters ==
    /\ \A n \in {a.v : a \in NameArgs} :
          FindByName(store, n) = {store[i] : i \in {j \in DOMAIN store : store[j].name = n}}
    /\ \A c \in Category :
          FindByCategory(store, c)
              = {store[i] : i \in {j \in DOMAIN store : store[j].category = c}}
    /\ \A a \in BOOLEAN :
          FindByAvailability(store, a)
              = {store[i] : i \in {j \in DOMAIN store : store[j].available = a}}
    /\ (last.op = "LIST" /\ last.name.present)
          => resp.items
               = {Serialize(before[i]) : i \in {j \in DOMAIN before :
                                                   before[j].name = last.name.v}}

\* C7: GET /products without a name and with a category that is not the
\* name of a member of the enumeration answers 400 and leaves the table.
C7_UnknownCategoryIs400 ==
    (last.op = "LIST" /\ ~last.name.present /\ last.category.present
     /\ ~IsCategoryName(last.category.v))
        => (resp.status = HTTP_400_BAD_REQUEST /\ store = before)

\* C8: with available supplied and neither name nor category, the answer is
\* exactly the stored products whose available is (lowercased value =
\* "true"), for every supplied value, the empty string included.
C8_AvailableParsedAsBoolean ==
    (last.op = "LIST" /\ ~last.name.present /\ ~last.category.present
     /\ last.available.present)
        => /\ resp.status = HTTP_200_OK
           /\ resp.items = {Serialize(before[i]) : i \in {j \in DOMAIN before :
                              before[j].available = (Lower(last.available.v) = "true")}}

\* What C5, C6 and C8 say does hold of every request none of whose supplied
\* parameters is empty (and whose category, if it is the one used, names a
\* member): the divergences are those of the empty value alone.
NonEmptyArgsFilterAsClaimed ==
    (/\ last.op = "LIST"
     /\ \A a \in {last.name, last.category, last.available} : a.present => a.v # ""
     /\ (~last.name.present /\ last.category.present) => IsCategoryName(last.category.v))
        => /\ resp.status = HTTP_200_OK
           /\ resp.items = SerializeAll(SuppliedFilter(before, last))
           /\ store = before

\* C9: a POST, or a PUT on a stored product, whose JSON body fails
\* validation answers 400 and changes no row.
C9_InvalidBodyNoSideEffect ==
    (/\ last.op \in {"POST", "PUT"}
     /\ last.json
     /\ last.data \in InvalidPayloads
     /\ last.op = "PUT" => Found(before, last.id))
        => (resp.status = HTTP_400_BAD_REQUEST /\ store = before)

\* C9 witness: a PUT on a stored product whose body is invalid only in a
\* field that comes after fields differing from the stored ones was refused.
C9_Witness ==
    /\ last.op = "PUT" /\ last.json
    /\ last.data = With(LowerHammer, "available", JStr("yes"))
    /\ Found(before, last.id)
    /\ Find(before, last.id).name = "Hammer"
    /\ resp.status = HTTP_400_BAD_REQUEST

\* C10: a POST that is not JSON content-typed answers 415, whatever its
\* body, and creates nothing.
C10_NotJsonIs415 ==
    (last.op = "POST" /\ ~last.json)
        => (resp.status = HTTP_415_UNSUPPORTED_MEDIA_TYPE /\ store = before)

\* C10 witness: a POST that is not JSON, with a body that would be a valid
\* product and room in the table, was answered 415.
C10_Witness ==
    /\ last.op = "POST" /\ ~last.json
    /\ last.data \in ValidPayloads
    /\ FreshIds(before) # {}
    /\ resp.status = HTTP_415_UNSUPPORTED_MEDIA_TYPE

====
